---- MODULE Spec2Model ----
(***************************************************************************)
(* A model of ImageConverter/image-format-converter.py: the single-image   *)
(* converter convert_webp_to_jpeg, the directory walker                    *)
(* batch_convert_webp_to_jpeg and the command-line dispatch of main.       *)
(*                                                                         *)
(* Paths and file names are sequences of one-character strings, so that    *)
(* os.path.splitext, os.path.join, str.lower and str.endswith are computed *)
(* character by character.  The file system is a function from the paths   *)
(* that exist to directory or file entries.  The imaging library is        *)
(* modelled by what the calls made by the script do to a one-dimensional   *)
(* bitmap (a sequence of pixels).                                          *)
(***************************************************************************)
EXTENDS Integers, Sequences, FiniteSets, TLC

VARIABLES
    args,      \* the parsed command line: command, input, output, quality, recursive
    fs,        \* the file system: path -> entry
    fs0,       \* the file system when the process started (history)
    pc,        \* position of the process
    stack,     \* os.walk: directories still to be visited, next one first
    todo,      \* names of the current listing not yet iterated
    root,      \* directory whose listing is being iterated
    frame,     \* the active call of convert_webp_to_jpeg
    enumerated,\* history: every path the walker's loops iterated, in order
    calls,     \* history: the arguments of every call of convert_webp_to_jpeg
    results,   \* history: the value returned by every finished call
    reads,     \* history: paths handed to Image.open
    writes,    \* history: paths a save opened for writing
    listed,    \* history: directories whose listing was taken
    stdout     \* history: lines printed

vars == << args, fs, fs0, pc, stack, todo, root, frame, enumerated, calls,
           results, reads, writes, listed, stdout >>

-----------------------------------------------------------------------------
(* Bounds of the model *)

\* most entries (files and directories) below the input directory
MaxEntries == 3
\* longest input path of a direct call of the converter
MaxPathLen == 5
\* most pixels of the bitmap of a direct call of the converter
MaxPixels == 2

-----------------------------------------------------------------------------
(* Strings *)

\* Python's None, as a value comparable with paths and equal to none of them
None == << "None" >>

DotWebp == << ".", "w", "e", "b", "p" >>
DotJpg == << ".", "j", "p", "g" >>

\* str.lower() on one character of the model's alphabet
LowerChar(c) ==
    CASE c = "W" -> "w"
      [] c = "E" -> "e"
      [] c = "B" -> "b"
      [] c = "P" -> "p"
      [] c = "J" -> "j"
      [] c = "G" -> "g"
      [] c = "A" -> "a"
      [] OTHER -> c

\* str.lower()
Lower(s) == [i \in 1..Len(s) |-> LowerChar(s[i])]

\* str.endswith(suffix)
EndsWith(s, suffix) ==
    /\ Len(s) >= Len(suffix)
    /\ SubSeq(s, Len(s) - Len(suffix) + 1, Len(s)) = suffix

\* str.rfind(c) + 1: the last position of c in s, 0 when there is none
RFind(s, c) ==
    LET at == {i \in 1..Len(s) : s[i] = c}
    IN  IF at = {} THEN 0 ELSE CHOOSE i \in at : \A j \in at : j <= i

\* splitext without the rule for leading dots: the extension starts at the
\* last dot of the last component
splitextLastDot(p) ==
    IF RFind(p, ".") > RFind(p, "/")
    THEN << SubSeq(p, 1, RFind(p, ".") - 1), SubSeq(p, RFind(p, "."), Len(p)) >>
    ELSE << p, << >> >>

\* os.path.splitext(p): << root, ext >>.  The extension starts at the last dot
\* of the last component, unless only dots precede it in that component.
splitext(p) ==
    LET sepIndex == RFind(p, "/")
        dotIndex == RFind(p, ".")
    IN  IF /\ dotIndex > sepIndex
           /\ \E k \in (sepIndex + 1)..(dotIndex - 1) : p[k] # "."
        THEN << SubSeq(p, 1, dotIndex - 1), SubSeq(p, dotIndex, Len(p)) >>
        ELSE << p, << >> >>

\* os.path.join(a, b)
join(a, b) ==
    IF Len(b) > 0 /\ b[1] = "/" THEN b
    ELSE IF a = << >> \/ a[Len(a)] = "/" THEN a \o b
    ELSE a \o << "/" >> \o b

\* the directory part and the last component of a path, as the operating
\* system resolves them
Dirname(p) == SubSeq(p, 1, RFind(p, "/") - 1)
Basename(p) == SubSeq(p, RFind(p, "/") + 1, Len(p))

-----------------------------------------------------------------------------
(* Bitmaps: [mode, pixels], a pixel being the tuple of its channels *)

NoImg == [mode |-> "none", pixels |-> << >>]

White == << 255, 255, 255 >>

\* Image.new("RGB", size, color)
ImageNew(size, color) == [mode |-> "RGB", pixels |-> [i \in 1..size |-> color]]

\* img.split()[k]: the band at (0-based) index k
Band(img, k) == [i \in 1..Len(img.pixels) |-> img.pixels[i][k + 1]]

\* the colour bands a paste or a convert("RGB") takes from a pixel
ColourOf(mode, px) ==
    IF mode \in {"RGB", "RGBA"} THEN << px[1], px[2], px[3] >>
    ELSE << px[1], px[1], px[1] >>

\* the library's 8-bit blend of one channel: (dst*(255-m) + src*m) / 255, rounded
Blend8(dst, src, m) ==
    LET tmp == dst * (255 - m) + src * m + 128
    IN  ((tmp \div 256) + tmp) \div 256

\* background.paste(img, mask=mask)
Paste(background, img, mask) ==
    [mode |-> background.mode,
     pixels |-> [i \in 1..Len(background.pixels) |->
        LET c == ColourOf(img.mode, img.pixels[i])
        IN  [ch \in 1..3 |-> Blend8(background.pixels[i][ch], c[ch], mask[i])]]]

\* img.convert("RGB")
ConvertRGB(img) ==
    [mode |-> "RGB",
     pixels |-> [i \in 1..Len(img.pixels) |-> ColourOf(img.mode, img.pixels[i])]]

-----------------------------------------------------------------------------
(* The file system *)

DirEntry == [kind |-> "dir", data |-> NoImg, format |-> "none", quality |-> 0]

FileEntry(format, img, q) ==
    [kind |-> "file", data |-> img, format |-> format, quality |-> q]

\* the bitmap every file of the batch model decodes to
SampleImg == [mode |-> "RGBA", pixels |-> << << 200, 100, 0, 128 >> >>]

Exists(p) == p \in DOMAIN fs
\* os.path.isdir(p); the empty directory part is the current directory
isdir(p) == Exists(p) /\ fs[p].kind = "dir"
IsDirPath(p) == p = << >> \/ isdir(p)

\* the file system with path p holding entry e
FsWith(p, e) == [x \in DOMAIN fs \cup {p} |-> IF x = p THEN e ELSE fs[x]]

\* the names in directory d, as a listing of d yields them
NamesIn(d) == {Basename(p) : p \in {x \in DOMAIN fs : x # << >> /\ Dirname(x) = d /\ RFind(x, "/") > 0}}

-----------------------------------------------------------------------------
(* convert_webp_to_jpeg(input_path, output_path=None, quality=90) *)

NoFrame == [input_path |-> None, output_path |-> None, quality |-> 0,
            img |-> NoImg, ret |-> "none"]

\* the exceptions the library calls of the try block raise
Exceptions == {"missing", "unreadable", "corrupt", "unwritable", "encoder"}

\* a handler that catches only the operating system's errors
CaughtOSError(kind) == kind \in {"missing", "unreadable", "unwritable"}

\* except Exception as e
Caught(kind) == kind \in Exceptions

\* ".jpg" appended to the input path, its extension not stripped
OutputPathAppend(input_path, output_path) ==
    IF output_path = None THEN input_path \o DotJpg ELSE output_path

\* the input path kept as the output path
OutputPathKeep(input_path, output_path) ==
    IF output_path = None THEN input_path ELSE output_path

\* if output_path is None: output_path = splitext(input_path)[0] + ".jpg"
OutputPath(input_path, output_path) ==
    IF output_path = None THEN splitext(input_path)[1] \o DotJpg
    ELSE output_path

\* the first band taken as the mask
AlphaMaskFirstBand(img) == Band(img, 0)

\* mask=img.split()[3] if img.mode == "RGBA" else img.split()[1]
AlphaMask(img) == IF img.mode = "RGBA" THEN Band(img, 3) ELSE Band(img, 1)

\* the bitmap handed to the JPEG encoder
Flattened(img) ==
    IF img.mode \in {"RGBA", "LA"}
    THEN Paste(ImageNew(Len(img.pixels), White), img, AlphaMask(img))
    ELSE ConvertRGB(img)

\* the quality values the encoder is documented to take
QualityValid(q) == q \in 1..100

Line(kind, path, out) == [kind |-> kind, path |-> path, out |-> out]

\* an exception raised inside the try block: caught, reported and turned into
\* the return value None; one that is not caught ends the process
Raise(kind) ==
    IF Caught(kind)
    THEN /\ stdout' = Append(stdout, Line("Error", frame.input_path, << kind >>))
         /\ results' = Append(results, None)
         /\ pc' = frame.ret
         /\ frame' = NoFrame
    ELSE /\ pc' = "crashed"
         /\ UNCHANGED << stdout, results, frame >>

\* img = Image.open(input_path), then the output path is determined
ConvertOpen ==
    /\ pc = "open"
    /\ reads' = reads \cup {frame.input_path}
    /\ UNCHANGED << args, fs, fs0, stack, todo, root, enumerated, calls, writes, listed >>
    /\ IF ~Exists(frame.input_path) THEN Raise("missing")
       ELSE IF isdir(frame.input_path) THEN Raise("unreadable")
       ELSE \/ Raise("corrupt")
            \/ /\ frame' = [frame EXCEPT
                    !.img = fs[frame.input_path].data,
                    !.output_path = OutputPath(frame.input_path, frame.output_path)]
               /\ pc' = "save"
               /\ UNCHANGED << stdout, results >>

\* the flattening and save(output_path, "JPEG", quality=quality), the
\* confirmation line and the return
ConvertSave ==
    /\ pc = "save"
    /\ UNCHANGED << args, fs0, stack, todo, root, enumerated, calls, reads, listed >>
    /\ LET out == frame.output_path
           writable == /\ out # << >>
                       /\ IsDirPath(Dirname(out))
                       /\ ~isdir(out)
                       /\ Basename(out) # << >>
       IN  IF ~writable
           THEN Raise("unwritable") /\ UNCHANGED << fs, writes >>
           ELSE \/ Raise("unwritable") /\ UNCHANGED << fs, writes >>
                \/ /\ ~QualityValid(frame.quality)
                   /\ Raise("encoder")
                   /\ writes' = writes \cup {out}
                   /\ \/ fs' = FsWith(out, FileEntry("truncated", NoImg, 0))
                      \/ ~Exists(out) /\ fs' = fs
                \/ /\ fs' = FsWith(out, FileEntry("JPEG", Flattened(frame.img), frame.quality))
                   /\ writes' = writes \cup {out}
                   /\ stdout' = Append(stdout, Line("Converted", frame.input_path, out))
                   /\ results' = Append(results, out)
                   /\ pc' = frame.ret
                   /\ frame' = NoFrame

-----------------------------------------------------------------------------
(* A direct call of convert_webp_to_jpeg, its arguments drawn from bounded sets *)

NoArgs == [command |-> "none", input |-> << >>, output |-> None,
           quality |-> 0, recursive |-> FALSE]

PathChars == {"a", ".", "/", "j", "p", "g"}
Paths == UNION {[1..n -> PathChars] : n \in 1..MaxPathLen}

Colours == {<< 0, 0, 0 >>, << 255, 255, 255 >>, << 200, 100, 0 >>}
Greys == {0, 100, 255}
Alphas == {0, 128, 255}
Modes == {"RGB", "RGBA", "LA", "L"}
PixelsOf(mode) ==
    CASE mode = "RGB" -> Colours
      [] mode = "RGBA" -> {c \o << a >> : c \in Colours, a \in Alphas}
      [] mode = "LA" -> {<< l, a >> : l \in Greys, a \in Alphas}
      [] OTHER -> {<< l >> : l \in Greys}
Images ==
    UNION {{[mode |-> m, pixels |-> px] : px \in [1..n -> PixelsOf(m)]} :
           m \in Modes, n \in 1..MaxPixels}

Qualities == {90, 101}

\* a file system holding path p: a directory when its last component is empty,
\* "." or "..", a file decoding to img otherwise; every directory part of p exists
FsFor(p, img) ==
    LET parts == {SubSeq(p, 1, i - 1) : i \in {k \in 2..Len(p) : p[k] = "/"}}
        isDirName == Basename(p) \in {<< >>, << "." >>, << ".", "." >>}
    IN  [x \in parts \cup {p} |->
            IF x = p /\ ~isDirName THEN FileEntry("WEBP", img, 0) ELSE DirEntry]

A_webp == << "a" >> \o DotWebp
A_jpg == << "a" >> \o DotJpg
O_jpg == << "o" >> \o DotJpg

InitCallOf(p, o, q, img) ==
    /\ args = NoArgs
    /\ fs = FsFor(p, img)
    /\ fs0 = fs
    /\ pc = "open"
    /\ stack = << >>
    /\ todo = {}
    /\ root = << >>
    /\ frame = [input_path |-> p, output_path |-> o, quality |-> q,
                img |-> NoImg, ret |-> "done"]
    /\ enumerated = << >>
    /\ calls = << [input_path |-> p, output_path |-> o, quality |-> q] >>
    /\ results = << >>
    /\ reads = {}
    /\ writes = {}
    /\ listed = {}
    /\ stdout = << >>

InitCall ==
    \/ \E p \in Paths : InitCallOf(p, None, 90, SampleImg)
    \/ \E p \in {A_webp, A_jpg, << "x", "/", "a" >>},
          o \in {None, << >>, O_jpg, A_webp, << "x", "/" >> \o O_jpg},
          q \in Qualities : InitCallOf(p, o, q, SampleImg)
    \/ \E img \in Images : InitCallOf(A_webp, None, 90, img)

NextCall == ConvertOpen \/ ConvertSave

CallSpec == InitCall /\ [][NextCall]_vars

-----------------------------------------------------------------------------
(* batch_convert_webp_to_jpeg(directory, quality, recursive) *)

\* the test without lower()
MatchesCaseSensitive(file) == EndsWith(file, DotWebp)

\* file.lower().endswith('.webp')
Matches(file) == EndsWith(Lower(file), DotWebp)

\* the sequences that list each element of S once: a listing's possible orders
Orders(S) == {q \in [1..Cardinality(S) -> S] : \A x \in S : \E i \in DOMAIN q : q[i] = x}

\* the call convert_webp_to_jpeg(input_path, output_path, quality), returning to ret
Call(input_path, output_path, q, ret) ==
    /\ frame' = [input_path |-> input_path, output_path |-> output_path,
                 quality |-> q, img |-> NoImg, ret |-> ret]
    /\ calls' = Append(calls, [input_path |-> input_path,
                               output_path |-> output_path, quality |-> q])
    /\ pc' = "open"

\* os.listdir(directory): every name of the directory, subdirectories included
Listdir ==
    /\ pc = "listdir"
    /\ todo' = NamesIn(args.input)
    /\ root' = args.input
    /\ listed' = listed \cup {args.input}
    /\ pc' = "loop"
    /\ UNCHANGED << args, fs, fs0, stack, frame, enumerated, calls, results,
                    reads, writes, stdout >>

\* a walk that descends into no subdirectory
WalkDirsNone(top) == {}

\* the subdirectories os.walk descends into from directory top
WalkDirs(top) == {name \in NamesIn(top) : isdir(join(top, name))}

\* os.walk(directory), one step of the generator: the next directory is listed
\* when the walk reaches it; its subdirectories are visited after its files
Walk ==
    /\ pc = "walk"
    /\ UNCHANGED << args, fs, fs0, frame, enumerated, calls, results, reads,
                    writes, stdout >>
    /\ IF stack = << >>
       THEN pc' = "done" /\ UNCHANGED << stack, todo, root, listed >>
       ELSE LET top == Head(stack)
                dirs == WalkDirs(top)
            IN  /\ todo' = NamesIn(top) \ dirs
                /\ root' = top
                /\ listed' = listed \cup {top}
                /\ \E order \in Orders(dirs) :
                      stack' = [i \in 1..Len(order) |-> join(top, order[i])]
                               \o Tail(stack)
                /\ pc' = "loop"

\* one iteration of "for file in files" / "for file in os.listdir(directory)"
Loop ==
    /\ pc = "loop"
    /\ UNCHANGED << args, fs, fs0, stack, root, results, reads, writes, listed,
                    stdout >>
    /\ IF todo = {}
       THEN /\ pc' = IF args.recursive THEN "walk" ELSE "done"
            /\ UNCHANGED << todo, frame, enumerated, calls >>
       ELSE \E file \in todo :
              /\ todo' = todo \ {file}
              /\ enumerated' = Append(enumerated, join(root, file))
              /\ IF Matches(file)
                 THEN Call(join(root, file), None, args.quality, "loop")
                 ELSE UNCHANGED << pc, frame, calls >>

-----------------------------------------------------------------------------
(* main() *)

\* the option tested against None only
TruthyNotNone(s) == s # None

\* the truth value of a string option: set and not empty
Truthy(s) == s # None /\ s # << >>

Main ==
    /\ pc = "main"
    /\ UNCHANGED << args, fs, fs0, todo, root, enumerated, results, reads,
                    writes, listed >>
    /\ IF args.command = "webp2jpeg"
       THEN IF isdir(args.input)
            THEN /\ stdout' = IF Truthy(args.output)
                              THEN Append(stdout, Line("Warning", args.output, None))
                              ELSE stdout
                 /\ pc' = IF args.recursive THEN "walk" ELSE "listdir"
                 /\ stack' = IF args.recursive THEN << args.input >> ELSE << >>
                 /\ UNCHANGED << frame, calls >>
            ELSE /\ Call(args.input, args.output, args.quality, "done")
                 /\ UNCHANGED << stack, stdout >>
       ELSE /\ stdout' = Append(stdout, Line("Help", None, None))
            /\ pc' = "done"
            /\ UNCHANGED << stack, frame, calls >>

-----------------------------------------------------------------------------
(* The process: a command line and a directory tree *)

D == << "d" >>
In(d, name) == d \o << "/" >> \o name
SubDir == In(D, << "s" >> \o DotWebp)
SubSubDir == In(SubDir, << "t" >>)

\* the entries a tree below d may hold: path and kind
Candidates ==
    {<< In(D, A_webp), "file" >>,
     << In(D, << "a", ".", "W", "E", "B", "P" >>), "file" >>,
     << In(D, A_jpg), "file" >>,
     << In(D, << "c", ".", "p", "n", "g" >>), "file" >>,
     << In(D, DotWebp), "file" >>,
     << SubDir, "dir" >>,
     << In(SubDir, << "b" >> \o DotWebp), "file" >>,
     << SubSubDir, "dir" >>,
     << In(SubSubDir, << "e", ".", "W", "e", "b", "P" >>), "file" >>}

\* the trees: the directory d and at most MaxEntries entries, each in a
\* directory of the tree
Trees ==
    {T \in SUBSET Candidates :
        /\ Cardinality(T) <= MaxEntries
        /\ \A e \in T : Dirname(e[1]) = D \/ << Dirname(e[1]), "dir" >> \in T}

TreeFs(T) ==
    [p \in {D} \cup {e[1] : e \in T} |->
        IF p = D \/ << p, "dir" >> \in T THEN DirEntry
        ELSE FileEntry("WEBP", SampleImg, 0)]

Inputs == {D, In(D, A_webp), In(D, A_jpg), << "x" >> \o DotWebp}
Outputs == {None, << >>, In(D, A_jpg)}

Init ==
    /\ args \in [command : {"webp2jpeg", "none"}, input : Inputs,
                 output : Outputs, quality : Qualities, recursive : BOOLEAN]
    /\ \E T \in Trees : fs = TreeFs(T)
    /\ fs0 = fs
    /\ pc = "main"
    /\ stack = << >>
    /\ todo = {}
    /\ root = << >>
    /\ frame = NoFrame
    /\ enumerated = << >>
    /\ calls = << >>
    /\ results = << >>
    /\ reads = {}
    /\ writes = {}
    /\ listed = {}
    /\ stdout = << >>

Next == Main \/ Listdir \/ Walk \/ Loop \/ ConvertOpen \/ ConvertSave

Spec == Init /\ [][Next]_vars

\* the process started on a directory; the walker is not given the -o value
InitBatch ==
    /\ Init
    /\ args.command = "webp2jpeg"
    /\ args.input = D
    /\ args.output = None

\* a batch run; the process is sequential and keeps running until it ends
BatchFairSpec == InitBatch /\ [][Next]_vars /\ WF_vars(Next)

-----------------------------------------------------------------------------
(* Vocabulary of the properties *)

\* the command line asks for a batch run: webp2jpeg on a directory
InBatch ==
    /\ args.command = "webp2jpeg"
    /\ args.input \in DOMAIN fs0
    /\ fs0[args.input].kind = "dir"

\* the command line asks for a single-file conversion
InSingle == args.command = "webp2jpeg" /\ ~InBatch

IsFile0(p) == p \in DOMAIN fs0 /\ fs0[p].kind = "file"

\* p lies below directory d, at any depth
Below(p, d) ==
    /\ Len(p) > Len(d) + 1
    /\ SubSeq(p, 1, Len(d) + 1) = d \o << "/" >>

\* the directories a batch run is asked to cover
InScope(p) ==
    IF args.recursive THEN Below(p, args.input) ELSE Dirname(p) = args.input

\* the name's last five characters are ".webp" in any case
WebpName(p) ==
    /\ Len(p) >= 5
    /\ Lower(SubSeq(p, Len(p) - 4, Len(p))) = DotWebp

MatchingFiles == {p \in DOMAIN fs0 : InScope(p) /\ IsFile0(p) /\ WebpName(p)}
NonMatchingFiles == {p \in DOMAIN fs0 : InScope(p) /\ IsFile0(p) /\ ~WebpName(p)}

\* a character of the last component of p, before position n, that is no dot
NameBefore(p, n) ==
    \E k \in 1..(n - 1) :
        /\ p[k] # "."
        /\ \A j \in k..(n - 1) : p[j] # "/"

\* the output path derived from a matching path: ".jpg" replaces the last
\* five characters, or is appended when only dots precede them in the name
DerivedFromWebp(p) ==
    IF NameBefore(p, Len(p) - 4) THEN SubSeq(p, 1, Len(p) - 5) \o DotJpg
    ELSE p \o DotJpg

CallInputs == {calls[i].input_path : i \in DOMAIN calls}
AllSucceeded == \A i \in DOMAIN results : results[i] # None
Printed(kind) == \E i \in DOMAIN stdout : stdout[i].kind = kind

-----------------------------------------------------------------------------
(* C1 *)

\* C1: convert_webp_to_jpeg never lets an exception escape: whatever the
\* input path, the output path, the quality and the failure, the process is
\* never ended by the call; every finished call returned None, after an error
\* line, or the path it wrote; and control is back at the caller.
C1_NoEscape ==
    /\ pc # "crashed"
    /\ Len(results) = IF frame = NoFrame THEN Len(calls) ELSE Len(calls) - 1
    /\ \A i \in DOMAIN results :
          \/ results[i] = None
          \/ /\ results[i] \in writes
             /\ calls[i].output_path # None => results[i] = calls[i].output_path
    /\ Cardinality({i \in DOMAIN results : results[i] = None})
         = Cardinality({i \in DOMAIN stdout : stdout[i].kind = "Error"})
    /\ (frame = NoFrame /\ calls # << >>) => pc \in {"loop", "walk", "done"}

\* a batch run that ended although the encoder rejected one file and another
\* file was converted
C1_Witness ==
    /\ pc = "done"
    /\ \E i \in DOMAIN stdout : stdout[i].out = << "encoder" >>
    /\ \E i \in DOMAIN stdout : stdout[i].out = << "unwritable" >>
    /\ \E i \in DOMAIN results : results[i] # None

-----------------------------------------------------------------------------
(* C2, C9, C7: a direct call; calls[1] holds its arguments *)

CallIn == calls[1].input_path
CallOut == calls[1].output_path

\* the path with everything from the last dot of its last component on
\* replaced by ".jpg" (".jpg" appended when that component has no dot)
NaiveJpg(p) ==
    IF RFind(p, ".") > RFind(p, "/") THEN SubSeq(p, 1, RFind(p, ".") - 1) \o DotJpg
    ELSE p \o DotJpg

\* C2 as stated: a supplied output path is used verbatim; otherwise the output
\* path is the input path with its extension replaced by ".jpg", also for a
\* name with a leading dot such as ".webp".
C2_Original ==
    pc = "save" =>
        frame.output_path = IF CallOut # None THEN CallOut ELSE NaiveJpg(CallIn)

\* e is the extension of path r \o e: empty when every dot of the last
\* component has only dots before it in that component; otherwise it starts at
\* the last dot and some character before it in the component is no dot
IsExtension(r, e) ==
    IF e = << >>
    THEN \A k \in 1..Len(r) :
            (r[k] = "." /\ \A j \in k..Len(r) : r[j] # "/") => ~NameBefore(r, k)
    ELSE /\ e[1] = "."
         /\ \A k \in 2..Len(e) : e[k] \notin {".", "/"}
         /\ NameBefore(r, Len(r) + 1)

\* C2 (amended): a supplied output path is used verbatim; otherwise the output
\* path is the input path with its extension replaced by ".jpg", where a name
\* made of leading dots and a dot-free rest (".webp") has no extension and
\* gets ".jpg" appended; the directory part is unchanged and the result
\* depends on the input path alone.
C2_OutputPath ==
    /\ pc = "save" =>
         IF CallOut # None THEN frame.output_path = CallOut
         ELSE /\ \E n \in 0..Len(CallIn) :
                    /\ IsExtension(SubSeq(CallIn, 1, n), SubSeq(CallIn, n + 1, Len(CallIn)))
                    /\ frame.output_path = SubSeq(CallIn, 1, n) \o DotJpg
              /\ Dirname(frame.output_path) = Dirname(CallIn)
    /\ (pc = "done" /\ results[1] # None /\ CallOut # None) => results[1] = CallOut

\* the call on ".a" derived ".a.jpg"
C2_Witness ==
    /\ pc = "save"
    /\ CallOut = None
    /\ CallIn = << ".", "a" >>
    /\ frame.output_path = << ".", "a" >> \o DotJpg

\* C9 as stated: with no explicit output path the call never writes to the
\* path it reads from, whatever the input's extension; the source file is
\* left unchanged.
C9_Original ==
    CallOut = None =>
        /\ pc = "save" => frame.output_path # frame.input_path
        /\ CallIn \notin writes
        /\ CallIn \in DOMAIN fs /\ fs[CallIn] = fs0[CallIn]

\* the path's extension is ".jpg": it ends in ".jpg" and some character of
\* the last component before that is no dot
HasJpgExt(p) == EndsWith(p, DotJpg) /\ NameBefore(p, Len(p) - 3)

\* C9 (amended): with no explicit output path the derived output path differs
\* from the input path, and the source file is left unchanged, unless the
\* input's extension is already ".jpg" (photo.jpg): then the output path is
\* the input path and the conversion overwrites its source.
C9_DerivedDiffers ==
    CallOut = None =>
        /\ pc = "save" => (frame.output_path = frame.input_path <=> HasJpgExt(CallIn))
        /\ CallIn \in writes => HasJpgExt(CallIn)
        /\ ~HasJpgExt(CallIn) => CallIn \in DOMAIN fs /\ fs[CallIn] = fs0[CallIn]
        /\ (pc = "done" /\ results[1] # None /\ HasJpgExt(CallIn)) =>
              /\ results[1] = CallIn
              /\ fs[CallIn].format = "JPEG"

\* the call on a.jpg wrote its JPEG over a.jpg
C9_Witness ==
    /\ pc = "done"
    /\ CallOut = None
    /\ CallIn = A_jpg
    /\ results = << A_jpg >>
    /\ fs[A_jpg] # fs0[A_jpg]

\* the alpha and the colour of a source pixel
AlphaOf(px) == px[Len(px)]
SourceColour(px) ==
    IF Len(px) >= 3 THEN << px[1], px[2], px[3] >> ELSE << px[1], px[1], px[1] >>

\* C7: the encoded image is opaque 3-channel colour of the source's
\* dimensions; for a mode with an alpha channel each pixel is white where the
\* source alpha is 0 and the source's colour where it is 255; for every
\* other mode each pixel is the source's colour, with no white canvas.
C7_Transparency ==
    (pc = "done" /\ results # << >> /\ results[1] # None) =>
        LET src == fs0[CallIn].data
            enc == fs[results[1]].data
        IN  /\ enc.mode = "RGB"
            /\ Len(enc.pixels) = Len(src.pixels)
            /\ \A i \in 1..Len(src.pixels) :
                  /\ Len(enc.pixels[i]) = 3
                  /\ IF src.mode \in {"RGBA", "LA"}
                     THEN /\ AlphaOf(src.pixels[i]) = 0 => enc.pixels[i] = << 255, 255, 255 >>
                          /\ AlphaOf(src.pixels[i]) = 255 =>
                                enc.pixels[i] = SourceColour(src.pixels[i])
                     ELSE enc.pixels[i] = SourceColour(src.pixels[i])

\* a grayscale-with-alpha bitmap, one pixel transparent and one opaque, encoded
C7_Witness ==
    /\ pc = "done"
    /\ results # << >> /\ results[1] # None
    /\ fs0[CallIn].data = [mode |-> "LA", pixels |-> << << 0, 0 >>, << 100, 255 >> >>]
    /\ fs[results[1]].data.pixels = << << 255, 255, 255 >>, << 100, 100, 100 >> >>

-----------------------------------------------------------------------------
(* C3, C5, C4, C6, C8, C10: the process *)

DerivedPaths == {DerivedFromWebp(p) : p \in MatchingFiles}

\* C3 as stated: a batch run over N matching and M non-matching files, every
\* conversion succeeding, produces exactly N output files and touches none of
\* the M, also with a.webp next to a.WEBP or a.jpg next to a.webp.
C3_Original ==
    (InBatch /\ pc = "done" /\ AllSucceeded) =>
        /\ Cardinality(writes) = Cardinality(MatchingFiles)
        /\ writes \cap NonMatchingFiles = {}

\* C3 (amended): a batch run writes only at the output paths derived from its
\* matching files: at most N output files, and exactly N when every
\* conversion succeeds and no two matching files derive the same path; a
\* non-matching file is left as it was unless it sits at a derived path.
C3_BatchOutputs ==
    InBatch =>
        /\ writes \subseteq DerivedPaths
        /\ Cardinality(writes) <= Cardinality(MatchingFiles)
        /\ (/\ pc = "done"
            /\ AllSucceeded
            /\ Cardinality(DerivedPaths) = Cardinality(MatchingFiles)) =>
                /\ Cardinality(writes) = Cardinality(MatchingFiles)
                /\ \A w \in writes : w \in DOMAIN fs /\ fs[w].format = "JPEG"
        /\ \A m \in NonMatchingFiles :
              m \notin DerivedPaths => (m \in DOMAIN fs /\ fs[m] = fs0[m])

\* a.webp, a.WEBP and a.jpg in the directory: both conversions succeeded and
\* the one output file is the overwritten a.jpg
C3_Witness ==
    /\ InBatch /\ pc = "done" /\ AllSucceeded
    /\ Len(results) = 2
    /\ {In(D, A_webp), In(D, << "a", ".", "W", "E", "B", "P" >>)} \subseteq MatchingFiles
    /\ In(D, A_jpg) \in NonMatchingFiles
    /\ writes = {In(D, A_jpg)}
    /\ fs[In(D, A_jpg)] # fs0[In(D, A_jpg)]

\* C5 as stated: the entries a batch run passes to the converter are exactly
\* the files of the directory (of the tree, if recursive) whose extension is
\* .webp in any case; no subdirectory is ever passed.
C5_ExactlyMatchingFiles ==
    InBatch =>
        /\ CallInputs \subseteq MatchingFiles
        /\ pc = "done" => CallInputs = MatchingFiles

IsMatch(p) == WebpName(p)
InputsOf(cs) == [i \in DOMAIN cs |-> cs[i].input_path]

\* what holds of the walker's loops at every moment: the calls made are the
\* matching entries iterated so far, in order, none iterated twice, and a
\* call starts only when the one before has returned
C4_Sequential ==
    /\ InputsOf(calls) = SelectSeq(enumerated, IsMatch)
    /\ \A i, j \in DOMAIN enumerated : enumerated[i] = enumerated[j] => i = j
    /\ Len(results) = IF frame = NoFrame THEN Len(calls) ELSE Len(calls) - 1
    /\ pc = "done" =>
          \A p \in DOMAIN fs0 :
              (/\ Dirname(p) \in listed
               /\ WebpName(p)
               /\ (args.recursive => IsFile0(p))) =>
                  Cardinality({i \in DOMAIN calls : calls[i].input_path = p}) = 1

\* C4: whichever conversions fail, a batch run invokes the converter exactly
\* once on every matching entry of the enumeration, one call after the other,
\* and the run terminates.
C4_FailureIsolation ==
    /\ [](InBatch /\ C4_Sequential /\ pc # "crashed")
    /\ <>(pc = "done")

\* a run that ended after a failed conversion was followed by a successful one
C4_Witness ==
    /\ InBatch /\ pc = "done"
    /\ \E i, j \in DOMAIN results : i < j /\ results[i] = None /\ results[j] # None

\* C6: with recursive unset nothing below a nested subdirectory is listed,
\* read or written; with recursive set every matching file at every depth is
\* handed to the converter, and the output of each conversion is written in
\* the directory of its input.
C6_RecursionFlag ==
    InBatch =>
        /\ ~args.recursive =>
              /\ listed \subseteq {args.input}
              /\ \A p \in reads \cup writes : Dirname(p) = args.input
        /\ (args.recursive /\ pc = "done") =>
              \A p \in DOMAIN fs0 :
                  (Below(p, args.input) /\ IsFile0(p) /\ WebpName(p)) =>
                      /\ p \in reads
                      /\ Dirname(p) \in listed
                      /\ \E i \in DOMAIN calls :
                            /\ calls[i].input_path = p
                            /\ results[i] # None =>
                                  /\ results[i] \in writes
                                  /\ Dirname(results[i]) = Dirname(p)
                                  /\ results[i] \in DOMAIN fs
        /\ \A i \in DOMAIN results :
              results[i] # None => Dirname(results[i]) = Dirname(calls[i].input_path)

\* a recursive run converted a file two directories down, next to its input
C6_Witness ==
    /\ InBatch /\ args.recursive /\ pc = "done"
    /\ In(SubSubDir, << "e", ".", "W", "e", "b", "P" >>) \in reads
    /\ In(SubSubDir, << "e" >> \o DotJpg) \in writes
    /\ In(SubSubDir, << "e" >> \o DotJpg) \in DOMAIN fs

\* what C8 and its amendment share: the batch walker runs with the given
\* quality and recursive flag and never gets the -o value; a non-directory
\* input is converted by exactly one call with the given -o and quality; with
\* no command only the usage help is printed
C8_Common ==
    /\ InBatch =>
          /\ \A i \in DOMAIN calls :
                /\ calls[i].output_path = None
                /\ calls[i].quality = args.quality
          /\ \A i \in DOMAIN results :
                results[i] # None => results[i] = DerivedFromWebp(calls[i].input_path)
          /\ pc = "listdir" => ~args.recursive
          /\ pc = "walk" => args.recursive
          /\ ~args.recursive => listed \subseteq {args.input}
    /\ (InSingle /\ pc # "main") =>
          /\ calls = << [input_path |-> args.input, output_path |-> args.output,
                         quality |-> args.quality] >>
          /\ listed = {}
          /\ pc \in {"open", "save", "done"}
          /\ reads \subseteq {args.input}
          /\ \A i \in DOMAIN stdout : stdout[i].kind \in {"Converted", "Error"}
    /\ (args.command # "webp2jpeg" /\ pc # "main") =>
          /\ pc = "done"
          /\ stdout = << Line("Help", None, None) >>
          /\ calls = << >> /\ reads = {} /\ writes = {} /\ listed = {}
          /\ fs = fs0

WarningFirst ==
    /\ stdout # << >>
    /\ stdout[1] = Line("Warning", args.output, None)
    /\ \A i \in 2..Len(stdout) : stdout[i].kind # "Warning"

\* C8 as stated: with a directory input a supplied -o value is ignored after a
\* warning, and no file is ever written at that path.
C8_Original ==
    /\ C8_Common
    /\ (InBatch /\ pc # "main" /\ args.output # None) =>
          /\ WarningFirst
          /\ args.output \notin writes
    /\ (InBatch /\ args.output = None) => ~Printed("Warning")

\* C8 (amended): with a directory input a supplied -o value is never passed
\* to the converter; a warning is printed first when the value is not empty
\* (and none otherwise); every output uses a derived name, so a file is
\* written at the -o path only when that path is the derived name of a
\* matching file.  The other two cases are as stated.
C8_Dispatch ==
    /\ C8_Common
    /\ (InBatch /\ pc # "main") =>
          /\ args.output \notin {None, << >>} => WarningFirst
          /\ args.output \in {None, << >>} => ~Printed("Warning")
          /\ writes \subseteq DerivedPaths
          /\ args.output \in writes => args.output \in DerivedPaths
    /\ pc = "main" => stdout = << >>

\* a batch run warned about -o d/a.jpg and then wrote d/a.jpg, the output
\* derived from d/a.webp
C8_Witness ==
    /\ InBatch /\ pc = "done"
    /\ args.output = In(D, A_jpg)
    /\ WarningFirst
    /\ In(D, A_jpg) \in writes
    /\ \E i \in DOMAIN calls :
          calls[i] = [input_path |-> In(D, A_webp), output_path |-> None,
                      quality |-> args.quality]

\* C10: during a batch run the paths read and the paths written are disjoint:
\* every input name matches .webp and every output name ends in ".jpg", so no
\* .webp source is overwritten or deleted and nothing the run wrote is, or
\* could be, picked up by it as an input.
C10_InputsOutputsDisjoint ==
    InBatch =>
        /\ reads \cap writes = {}
        /\ CallInputs \cap writes = {}
        /\ \A r \in reads \cup CallInputs : WebpName(r)
        /\ \A w \in writes : EndsWith(w, DotJpg) /\ ~WebpName(w) /\ ~Matches(Basename(w))
        /\ \A name \in todo : Matches(name) => join(root, name) \notin writes
        /\ \A p \in DOMAIN fs0 : WebpName(p) => (p \in DOMAIN fs /\ fs[p] = fs0[p])

\* a recursive run wrote an output in the directory and then listed a nested
\* directory and converted a file of it
C10_Witness ==
    /\ InBatch /\ args.recursive /\ pc = "done"
    /\ Len(results) = 2 /\ AllSucceeded
    /\ Dirname(results[1]) = D
    /\ Dirname(results[2]) = SubDir
    /\ Cardinality(writes) = 2

====
